---- MODULE Spec2Model ----
(***************************************************************************)
(* Model of fix_nlp_format.py: the Line Expander fix_code_block_line and   *)
(* the read / scan / write / report sequence of main.                      *)
(*                                                                         *)
(* A Python str is a sequence of characters, one string per character     *)
(* (the backtick is written BT), so that len, in, find, split, replace,    *)
(* strip, startswith and slicing are computed on characters exactly as     *)
(* the interpreter computes them.                                          *)
(***************************************************************************)
EXTENDS Integers, Sequences, FiniteSets, TLC

VARIABLES file, pc, lines, i, in_python_block, result, printed,
          fx_pc, fx_line, fx_result

vars == <<file, pc, lines, i, in_python_block, result, printed,
          fx_pc, fx_line, fx_result>>

main_vars == <<file, pc, lines, i, in_python_block, result, printed>>

fx_vars == <<fx_pc, fx_line, fx_result>>

(***************************************************************************)
(* Characters and markers                                                  *)
(***************************************************************************)
NL == "\n"

BS == "\\"

QUOTE == "\""

BT == "BACKTICK"

BT3 == <<BT, BT, BT>>

FENCE_PY == <<BT, BT, BT, "p", "y", "t", "h", "o", "n">>

BSN == <<BS, "n">>

BSBSN == <<BS, BS, "n">>

BSQ == <<BS, QUOTE>>

Whitespace == {" ", NL, "\t"}

FenceLen == 9

GluedMinLen == 20

CompressedMinLen == 150

(***************************************************************************)
(* str operations                                                          *)
(***************************************************************************)
Slice(s, from, to) == SubSeq(s, from + 1, to)

StartsWith(s, p) == Len(s) >= Len(p) /\ SubSeq(s, 1, Len(p)) = p

Occurrences(s, p) ==
    {k \in 0..(Len(s) - Len(p)) : s[k + 1] = p[1] /\ SubSeq(s, k + 1, k + Len(p)) = p}

Min(S) == CHOOSE k \in S : \A m \in S : k <= m

Find(s, p) == IF Occurrences(s, p) = {} THEN -1 ELSE Min(Occurrences(s, p))

Contains(s, p) == Occurrences(s, p) # {}

\* str.split(sep, 1): only the first separator splits.
Split_Once(s, sep) ==
    LET k == Find(s, sep)
    IN  IF k = -1 THEN <<s>>
        ELSE <<Slice(s, 0, k), Slice(s, k + Len(sep), Len(s))>>

RECURSIVE Split(_, _)
Split(s, sep) ==
    LET k == Find(s, sep)
    IN  IF k = -1 THEN <<s>>
        ELSE <<Slice(s, 0, k)>> \o Split(Slice(s, k + Len(sep), Len(s)), sep)

RECURSIVE Replace(_, _, _)
Replace(s, old, new) ==
    LET k == Find(s, old)
    IN  IF k = -1 THEN s
        ELSE Slice(s, 0, k) \o new \o Replace(Slice(s, k + Len(old), Len(s)), old, new)

RECURSIVE LStrip(_)
LStrip(s) == IF s # <<>> /\ Head(s) \in Whitespace THEN LStrip(Tail(s)) ELSE s

RECURSIVE RStrip(_)
RStrip(s) ==
    IF s # <<>> /\ s[Len(s)] \in Whitespace THEN RStrip(SubSeq(s, 1, Len(s) - 1)) ELSE s

Strip(s) == RStrip(LStrip(s))

RECURSIVE Concat(_)
Concat(ss) == IF ss = <<>> THEN <<>> ELSE Head(ss) \o Concat(Tail(ss))

RECURSIVE ReadLines(_)
ReadLines(content) ==
    LET k == Find(content, <<NL>>)
    IN  IF content = <<>> THEN <<>>
        ELSE IF k = -1 THEN <<content>>
        ELSE <<Slice(content, 0, k + 1)>> \o ReadLines(Slice(content, k + 1, Len(content)))

(***************************************************************************)
(* fix_code_block_line                                                     *)
(***************************************************************************)
Unescape(part) == Replace(Replace(part, BSBSN, <<NL>>), BSQ, <<QUOTE>>)

\* Every empty part is skipped, the blank-line branch is lost.
EmitPart_NoBlank(parts, k) ==
    IF parts[k] # <<>> THEN <<Unescape(parts[k]) \o <<NL>>>> ELSE <<>>

EmitPart(parts, k) ==
    IF parts[k] # <<>> THEN <<Unescape(parts[k]) \o <<NL>>>>
    ELSE IF k < Len(parts) THEN <<<<NL>>>>
    ELSE <<>>

RECURSIVE ExpandFrom(_, _)
ExpandFrom(parts, k) ==
    IF k > Len(parts) THEN <<>> ELSE EmitPart(parts, k) \o ExpandFrom(parts, k + 1)

fix_code_block_line(line) ==
    IF ~Contains(line, BSN) THEN <<line>> ELSE ExpandFrom(Split(line, BSN), 1)

(***************************************************************************)
(* The branches of the scan loop of main                                   *)
(***************************************************************************)
IsOpen(line) ==
    Strip(line) = FENCE_PY \/ StartsWith(Strip(line), FENCE_PY \o <<NL>>)

IsClose(line, blk) == StartsWith(Strip(line), BT3) /\ blk

IsGlued(line) ==
    Contains(line, FENCE_PY) /\ Len(line) > GluedMinLen /\ ~(Strip(line) = FENCE_PY)

\* The in_python_block conjunct is lost.
IsCompressed_AnyState(line, blk) == Contains(line, BSN) /\ Len(line) > CompressedMinLen

IsCompressed(line, blk) == blk /\ Contains(line, BSN) /\ Len(line) > CompressedMinLen

\* The glued-fence branch is tested before the fence-close branch.
Rule_GluedFirst(line, blk) ==
    IF IsOpen(line) THEN 1
    ELSE IF IsGlued(line) THEN 3
    ELSE IF IsClose(line, blk) THEN 2
    ELSE IF IsCompressed(line, blk) THEN 4
    ELSE 5

Rule(line, blk) ==
    IF IsOpen(line) THEN 1
    ELSE IF IsClose(line, blk) THEN 2
    ELSE IF IsGlued(line) THEN 3
    ELSE IF IsCompressed(line, blk) THEN 4
    ELSE 5

GluedOut(line) ==
    LET idx == Find(line, FENCE_PY)
    IN  (IF idx > 0 THEN <<RStrip(Slice(line, 0, idx)) \o <<NL>>>> ELSE <<>>)
        \o <<FENCE_PY \o <<NL>>>>
        \o fix_code_block_line(Slice(line, idx + FenceLen, Len(line)))

\* Passed-through lines are appended stripped and re-terminated.
RuleOut_Stripped(r, line) ==
    CASE r = 3 -> GluedOut(line)
      [] r = 4 -> fix_code_block_line(line)
      [] OTHER -> <<Strip(line) \o <<NL>>>>

\* The compressed branch appends the line instead of its expansion.
RuleOut_NoExpand(r, line) ==
    CASE r = 3 -> GluedOut(line)
      [] OTHER -> <<line>>

RuleOut(r, line) ==
    CASE r = 3 -> GluedOut(line)
      [] r = 4 -> fix_code_block_line(line)
      [] OTHER -> <<line>>

RuleBlk(r, blk) ==
    CASE r = 1 -> TRUE
      [] r = 2 -> FALSE
      [] r = 3 -> TRUE
      [] OTHER -> blk

RECURSIVE ScanFrom(_, _, _)
ScanFrom(ls, k, blk) ==
    IF k > Len(ls) THEN <<>>
    ELSE RuleOut(Rule(ls[k], blk), ls[k])
         \o ScanFrom(ls, k + 1, RuleBlk(Rule(ls[k], blk), blk))

Scan(ls) == ScanFrom(ls, 1, FALSE)

Rewrite(ls) == ReadLines(Concat(Scan(ls)))

(***************************************************************************)
(* Input documents                                                         *)
(***************************************************************************)
MaxLines == 2

PadShort == 21

PadLong == 151

MaxChunks == 4

Pad(n) == [k \in 1..n |-> "x"]

FooLine ==
    FENCE_PY \o <<"d", "e", "f", " ", "f", "o", "o", "(", ")", ":">> \o BSN
    \o <<" ", " ", " ", " ", "r", "e", "t", "u", "r", "n", " ", "1">> \o BSN

LineSet ==
    { <<>>,
      <<"x">>,
      FENCE_PY,
      <<" ">> \o FENCE_PY \o <<" ">>,
      BT3,
      BT3 \o <<"j", "s">>,
      FooLine,
      <<"a">> \o BSN \o <<"b">>,
      Pad(PadLong),
      <<"x", " ", "=", " ", "1">> \o BSN \o <<"y", " ", "=", " ", "2">> \o BSN \o Pad(PadLong),
      <<"s">> \o BSBSN \o BSQ \o <<"q">> \o BSQ \o BSN \o BSN \o Pad(PadLong),
      <<"a">> \o BSN \o BT3 \o BSN \o Pad(PadLong),
      BT3 \o BSN \o Pad(PadLong),
      FENCE_PY \o Pad(PadShort),
      <<"a", "b", " ", " ">> \o FENCE_PY \o BSQ \o Pad(PadShort),
      FENCE_PY \o <<"a", " ">> \o FENCE_PY \o Pad(PadShort),
      Pad(PadShort) \o <<" ">> \o FENCE_PY }

Docs == UNION {[1..n -> LineSet] : n \in 0..MaxLines}

RECURSIVE Join(_)
Join(doc) ==
    IF doc = <<>> THEN <<>>
    ELSE IF Len(doc) = 1 THEN Head(doc)
    ELSE Head(doc) \o <<NL>> \o Join(Tail(doc))

Contents == {Join(d) : d \in Docs} \cup {Join(d) \o <<NL>> : d \in Docs}

BadByte == "0xFF"

BadContents == {<<BadByte>>} \cup {l \o <<BadByte, NL>> : l \in LineSet}

Decodable(content) == \A k \in 1..Len(content) : content[k] # BadByte

Chunks == {<<BS>>, <<"n">>, <<QUOTE>>, <<"x">>, <<NL>>}

ChunkSeqs == UNION {[1..n -> Chunks] : n \in 0..MaxChunks}

ExpanderInputs == {Concat(cs) : cs \in ChunkSeqs}

(***************************************************************************)
(* main                                                                    *)
(***************************************************************************)
MainIdle ==
    /\ lines = <<>>
    /\ i = 0
    /\ in_python_block = FALSE
    /\ result = <<>>
    /\ printed = <<>>

FxIdle ==
    /\ fx_pc = "idle"
    /\ fx_line = <<>>
    /\ fx_result = <<>>

Init ==
    /\ \/ file \in {[exists |-> TRUE, content |-> c] : c \in Contents \cup BadContents}
       \/ file = [exists |-> FALSE, content |-> <<>>]
    /\ pc = "read"
    /\ MainIdle
    /\ FxIdle

ReadOk ==
    /\ pc = "read"
    /\ file.exists /\ Decodable(file.content)
    /\ lines' = ReadLines(file.content)
    /\ pc' = "scan"
    /\ UNCHANGED <<file, i, in_python_block, result, printed, fx_vars>>

\* The read error is swallowed and the run goes on with no lines.
ReadFail_Swallowed ==
    /\ pc = "read"
    /\ ~(file.exists /\ Decodable(file.content))
    /\ pc' = "scan"
    /\ UNCHANGED <<file, lines, i, in_python_block, result, printed, fx_vars>>

ReadFail ==
    /\ pc = "read"
    /\ ~(file.exists /\ Decodable(file.content))
    /\ pc' = "failed"
    /\ UNCHANGED <<file, lines, i, in_python_block, result, printed, fx_vars>>

ScanRule(r) ==
    /\ pc = "scan"
    /\ i < Len(lines)
    /\ Rule(lines[i + 1], in_python_block) = r
    /\ result' = result \o RuleOut(r, lines[i + 1])
    /\ in_python_block' = RuleBlk(r, in_python_block)
    /\ i' = i + 1
    /\ UNCHANGED <<file, pc, lines, printed, fx_vars>>

FenceOpen == ScanRule(1)

FenceClose == ScanRule(2)

FenceGlued == ScanRule(3)

Compressed == ScanRule(4)

PassThrough == ScanRule(5)

OpenWrite ==
    /\ pc = "scan"
    /\ ~(i < Len(lines))
    /\ file' = [exists |-> TRUE, content |-> <<>>]
    /\ pc' = "write"
    /\ UNCHANGED <<lines, i, in_python_block, result, printed, fx_vars>>

WriteLines ==
    /\ pc = "write"
    /\ file' = [file EXCEPT !.content = Concat(result)]
    /\ pc' = "print"
    /\ UNCHANGED <<lines, i, in_python_block, result, printed, fx_vars>>

Report ==
    /\ pc = "print"
    /\ printed' = <<Len(lines), Len(result), Len(result) - Len(lines)>>
    /\ pc' = "done"
    /\ UNCHANGED <<file, lines, i, in_python_block, result, fx_vars>>

Next ==
    \/ ReadOk
    \/ ReadFail
    \/ FenceOpen
    \/ FenceClose
    \/ FenceGlued
    \/ Compressed
    \/ PassThrough
    \/ OpenWrite
    \/ WriteLines
    \/ Report

Spec == Init /\ [][Next]_vars

(***************************************************************************)
(* fix_code_block_line on its own                                          *)
(***************************************************************************)
InitFx ==
    /\ file = [exists |-> FALSE, content |-> <<>>]
    /\ pc = "idle"
    /\ MainIdle
    /\ fx_pc = "call"
    /\ fx_line \in ExpanderInputs
    /\ fx_result = <<>>

FixCall ==
    /\ fx_pc = "call"
    /\ fx_result' = fix_code_block_line(fx_line)
    /\ fx_pc' = "ret"
    /\ UNCHANGED <<fx_line, main_vars>>

NextFx == FixCall

SpecFx == InitFx /\ [][NextFx]_vars

(***************************************************************************)
(* Properties                                                              *)
(***************************************************************************)
Scanning == pc = "scan" /\ i < Len(lines)

NewOut == {k \in 1..Len(result') : k > Len(result)}

CountNL(s) == Cardinality({k \in 1..Len(s) : s[k] = NL})

CountOcc(s, p) == Len(Split(s, p)) - 1

NoGlued(ls) ==
    \A k \in 1..Len(ls) : Contains(ls[k], FENCE_PY) => Strip(ls[k]) = FENCE_PY

NoFence(ls) == \A k \in 1..Len(ls) : ~Contains(ls[k], BT3)

DefFoo == <<"d", "e", "f", " ", "f", "o", "o", "(", ")", ":">>

Return1 == <<" ", " ", " ", " ", "r", "e", "t", "u", "r", "n", " ", "1">>

OneLine(e) == CountNL(e) <= 1 /\ (CountNL(e) = 1 => e[Len(e)] = NL)

\* C1 (as claimed): the scan loop applied to its own output returns that
\* output, for every input document.
C1_Idempotent == pc = "done" => Scan(result) = result

\* C1 (amended): for every document in which each line that contains the
\* Python-fence-open marker is, stripped, exactly that marker, the scan loop
\* applied to its own output returns that output, and rewriting the written
\* file again leaves its lines as they are.
C1_IdempotentWithoutGluedFence ==
    (pc = "done" /\ NoGlued(lines)) =>
        /\ Scan(result) = result
        /\ Rewrite(ReadLines(file.content)) = ReadLines(file.content)

C1_Witness ==
    /\ pc = "done"
    /\ NoGlued(lines)
    /\ Len(result) > Len(lines)
    /\ Scan(result) = result

\* C2 (as claimed): every line scanned while outside a Python fence is
\* appended to the output as one identical element.
C2_OutsideUnchanged ==
    [][(Scanning /\ ~in_python_block) => result' = Append(result, lines[i + 1])]_vars

\* C2 (amended): every line scanned while outside a Python fence that is not a
\* glued fence (contains the marker, longer than 20, stripped not the marker)
\* is appended to the output as one identical element.
C2_OutsideUnchangedUnlessGlued ==
    [][(Scanning /\ ~in_python_block /\ ~IsGlued(lines[i + 1]))
          => result' = Append(result, lines[i + 1])]_vars

C2_Witness ==
    /\ pc = "scan"
    /\ i = 1
    /\ Contains(lines[1], BSN)
    /\ Len(lines[1]) > CompressedMinLen
    /\ result = <<lines[1]>>
    /\ ~in_python_block

\* C3: a document with no three-backtick marker in any line is read back as
\* its lines, scanned with the state outside after every line and the output
\* equal to the lines scanned so far, written back as the same content and
\* reported with delta 0.
C3_NoFenceIdentity ==
    (pc \in {"scan", "write", "print", "done"} /\ NoFence(lines)) =>
        /\ ~in_python_block
        /\ result = SubSeq(lines, 1, i)
        /\ pc = "scan" => Concat(lines) = file.content
        /\ pc \in {"print", "done"} => file.content = Concat(lines)
        /\ pc = "done" => printed = <<Len(lines), Len(lines), 0>>

C3_Witness ==
    /\ pc = "done"
    /\ NoFence(lines)
    /\ \E k \in 1..Len(lines) :
          Len(lines[k]) > CompressedMinLen /\ Contains(lines[k], BSN)
    /\ printed = <<Len(lines), Len(lines), 0>>

\* C4: scanning the glued line "```pythondef foo():\n    return 1\n", with or
\* without its terminator and in either state, appends exactly the three
\* terminated lines "```python", "def foo():", "    return 1" and leaves the
\* state inside the Python block.
C4_FooThreeLines ==
    [][(Scanning /\ lines[i + 1] \in {FooLine, FooLine \o <<NL>>}) =>
          /\ result' = result \o <<FENCE_PY \o <<NL>>, DefFoo \o <<NL>>, Return1 \o <<NL>>>>
          /\ in_python_block']_vars

\* C5 (as claimed): no element emitted while or upon the state being inside a
\* Python block contains the literal backslash-n sequence.
C5_NoResidualInFence ==
    [][(Scanning /\ (in_python_block \/ in_python_block')) =>
          \A k \in NewOut : ~Contains(result'[k], BSN)]_vars

\* C5 (amended): a line scanned inside a Python block that is longer than 150,
\* contains the literal backslash-n sequence, does not start (stripped) with
\* three backticks and does not contain the Python-fence-open marker is
\* replaced by one or more elements none of which contains the sequence.
C5_CompressedLineExpanded ==
    [][(/\ Scanning
        /\ in_python_block
        /\ Len(lines[i + 1]) > CompressedMinLen
        /\ Contains(lines[i + 1], BSN)
        /\ ~StartsWith(Strip(lines[i + 1]), BT3)
        /\ ~Contains(lines[i + 1], FENCE_PY)) =>
          /\ NewOut # {}
          /\ in_python_block'
          /\ \A k \in NewOut : ~Contains(result'[k], BSN)]_vars

C5_Witness ==
    /\ pc = "scan"
    /\ i = 2
    /\ lines[1] = FENCE_PY \o <<NL>>
    /\ Len(lines[2]) > CompressedMinLen
    /\ Contains(lines[2], BSN)
    /\ Len(result) > 2
    /\ \A k \in 1..Len(result) : ~Contains(result[k], BSN)
    /\ in_python_block

\* C6: a failed read ends the run at once, with the file as it was and nothing
\* reported; the file changes only once the lines read from it have all been
\* scanned.
C6_NoWriteOnReadFailure ==
    [][/\ pc # "failed"
       /\ pc' = "failed" =>
             /\ pc = "read"
             /\ ~(file.exists /\ Decodable(file.content))
             /\ file' = file
             /\ printed' = <<>>
       /\ ~(file.exists /\ Decodable(file.content)) => pc = "read" /\ pc' = "failed"
       /\ file' # file =>
             /\ pc \in {"scan", "write"}
             /\ i = Len(lines)
             /\ pc = "scan" => lines = ReadLines(file.content)]_vars

C6_Witness ==
    /\ pc = "failed"
    /\ file.exists
    /\ ~Decodable(file.content)
    /\ file.content # <<>>
    /\ printed = <<>>

\* C7: in the expander's output every doubled-backslash-n of the input has
\* become one real newline inside an element: beyond the one terminator each
\* element carries, the output holds the input's real newlines plus one per
\* doubled-backslash-n.
C7_DoubledBecomesNewline ==
    (fx_pc = "ret" /\ Contains(fx_line, BSN)) =>
        CountNL(Concat(fx_result)) - Len(fx_result)
            = CountNL(fx_line) + CountOcc(fx_line, BSBSN)

\* C8: the expander never returns an empty sequence, and returns a line with
\* no literal backslash-n (the empty line included) as the one unchanged element.
C8_ExpanderNonEmpty ==
    fx_pc = "ret" =>
        /\ Len(fx_result) >= 1
        /\ ~Contains(fx_line, BSN) => fx_result = <<fx_line>>

C8_Witness ==
    /\ fx_pc = "ret"
    /\ fx_line = BSN \o BSN
    /\ fx_result = <<<<NL>>, <<NL>>>>

\* C9: every element of the output is exactly one line (at most one real
\* terminator, at its end), so the reported resulting count is the number of
\* lines of the written file.
C9_EachElementOneLine ==
    /\ \A k \in 1..Len(result) : OneLine(result[k])
    /\ pc = "done" => printed[2] = Len(ReadLines(file.content))

\* C10: inside a Python block a line that is, stripped, the Python-fence-open
\* marker is passed through and the state stays inside; any other line that,
\* stripped, starts with three backticks is passed through as one element and
\* the state becomes outside; outside a block a line that, stripped, starts
\* with three backticks and does not contain the marker is passed through with
\* the state unchanged.
C10_TransitionPriority ==
    [][Scanning =>
          /\ (in_python_block /\ Strip(lines[i + 1]) = FENCE_PY) =>
                result' = Append(result, lines[i + 1]) /\ in_python_block'
          /\ (/\ in_python_block
              /\ Strip(lines[i + 1]) # FENCE_PY
              /\ StartsWith(Strip(lines[i + 1]), BT3)) =>
                result' = Append(result, lines[i + 1]) /\ ~in_python_block'
          /\ (/\ ~in_python_block
              /\ StartsWith(Strip(lines[i + 1]), BT3)
              /\ ~Contains(lines[i + 1], FENCE_PY)) =>
                result' = Append(result, lines[i + 1]) /\ ~in_python_block']_vars

C10_Witness ==
    /\ pc = "scan"
    /\ i = 2
    /\ lines[1] = FENCE_PY \o <<NL>>
    /\ IsGlued(lines[2])
    /\ StartsWith(lines[2], BT3)
    /\ result = lines
    /\ ~in_python_block

====
